---- MODULE Spec2Model ----
(***************************************************************************)
(* The order pipeline of the pharmacy backend: OrchestratorAgent            *)
(* .process_order driving SafetyAgent, InventoryAgent, Database and the     *)
(* TraceLogger, together with StockRefillAgent.execute_refill.              *)
(*                                                                          *)
(* Granularity: one action is one access to a shared file                   *)
(* (medicine_master.csv, order_history.csv, traces.jsonl, refill_logs.csv)  *)
(* or to the orchestrator field current_trace_id, together with the local   *)
(* computation around it.  Database.update_stock and Database.save_order    *)
(* read the whole table, change it in memory and write the whole table      *)
(* back, without a lock: the read and the write are separate actions.       *)
(***************************************************************************)
EXTENDS Integers, Sequences, FiniteSets, TLC

----------------------------------------------------------------------------
(* Bounds of the model *)

NumProcs == 2       \* process_order executions (each runs once)
MaxNow == 1         \* the clock runs over 0..MaxNow (seconds)
MaxRefills == 1     \* execute_refill calls
InitStock == 3      \* stock_level of every medicine at start
MaxDays == 4        \* days the clock runs over when it moves by half days
MaxReads == 2       \* calls of the alert and trace endpoints
MaxRefillCalls == 3 \* execute_refill calls when only refills run
MaxRefillNow == 600 \* the clock runs over 0..MaxRefillNow when only refills run

(* Program constants *)

low_stock_threshold == 50       \* InventoryAgent.__init__
refill_cooldown_minutes == 5    \* StockRefillAgent.__init__
max_refill_multiplier == 5      \* StockRefillAgent.__init__
default_stock_threshold == 50   \* medicine.get('stock_threshold', 50)
alert_threshold_days == 3       \* PredictiveAgent.__init__
seconds_per_day == 24 * 60 * 60 \* timedelta.days
grouped_limit == 50             \* get_recent_traces_grouped(limit = 50)
statistics_limit == 10000       \* get_traces(limit=10000)
recent_activity_limit == 10     \* all_traces[:10]

Procs == 1..NumProcs
None == "None"

(* str(uuid.uuid4()) of execution p; the orchestrator's field before any    *)
(* execution                                                                *)
TraceId(p) == <<"uuid", p>>
NoTraceId == <<>>

(* f"ORD-{datetime.now().strftime('%Y%m%d%H%M%S')}"; order_id: None *)
OrderId(t) == <<"ORD", t>>
NoOrderId == <<>>

(* medicine_master.csv: the rows, by stored name *)
Catalog == {"Paracetamol", "Amoxicillin"}
prescription_required == [m \in Catalog |-> m = "Amoxicillin"]

(* the stock_threshold column of the rows, read with                        *)
(* medicine.get('stock_threshold', 50)                                      *)
stock_threshold ==
    [m \in Catalog |-> IF m = "Paracetamol" THEN 30 ELSE default_stock_threshold]

(* str.lower() on the names the model uses *)
Lower(name) ==
    CASE name = "Paracetamol" -> "paracetamol"
      [] name = "PARACETAMOL" -> "paracetamol"
      [] name = "Amoxicillin" -> "amoxicillin"
      [] OTHER -> name

(* Database.get_medicine: the row whose lower-cased name equals the          *)
(* lower-cased argument, or None                                             *)
get_medicine(name) ==
    IF \E m \in Catalog : Lower(m) = Lower(name)
    THEN CHOOSE m \in Catalog : Lower(m) = Lower(name)
    ELSE None

(* What extract_intent can return: the medicine name (None when nothing was  *)
(* recognised, a name that is not in the catalog for a best guess), the      *)
(* quantity and the dosage per day.                                          *)
MedicineNames == {None, "Aspirin", "Paracetamol", "Amoxicillin"}
Quantities == {0, InitStock - 1, InitStock + 2}
Dosages == {0, 1, 7, 11}
Users == {"u1"}

Intent(n, q, d) == [medicine_name |-> n, quantity |-> q, dosage_per_day |-> d]

(* The intents the executions are run on: every medicine name with the      *)
(* default quantity and dosage, and the orderable medicine with every       *)
(* quantity and every dosage                                                *)
Intents ==
    {Intent(n, 1, 1) : n \in MedicineNames}
      \cup {Intent("Paracetamol", q, 1) : q \in Quantities}
      \cup {Intent("Paracetamol", InitStock - 1, d) : d \in Dosages}

VARIABLES
    stock,              \* medicine_master.csv: stock_level by name
    orders,             \* order_history.csv: the rows in file order
    traces,             \* traces.jsonl: the lines in file order
    refill_logs,        \* refill_logs.csv: the rows in file order
    current_trace_id,   \* OrchestratorAgent.current_trace_id
    now,                \* datetime.now(), in seconds
    pc,                 \* position of each process_order execution
    user,               \* user_id argument of each execution
    intent,             \* intent extracted by each execution
    status,             \* workflow_result["status"]
    order_id,           \* workflow_result["order_id"]
    df,                 \* table read by update_stock / load_order_history
    odf,                \* order table read by save_order, and its purchase_date
    ret,                \* what deduct_stock returned to the execution
    hist,               \* steps each execution has run, with their outcome
    changed,            \* the execution has written a changed stock table
    saved,              \* Orders the execution has written
    rpc,                \* position of the execute_refill call
    rreq,               \* its arguments and locals
    refills,            \* execute_refill calls made
    checked,            \* what the dosage and availability checks returned,
                        \* and the stock table when the execution started
    reply,              \* what the latest read call returned
    reads,              \* read calls made
    logged              \* the entries each caller has passed to log_trace

vars == <<stock, orders, traces, refill_logs, current_trace_id, now, pc, user,
          intent, status, order_id, df, odf, ret, hist, changed, saved, rpc,
          rreq, refills, checked, reply, reads, logged>>

procVars == <<pc, user, intent, status, order_id, df, odf, ret, hist, changed, saved,
              checked>>
refillVars == <<rpc, rreq, refills, refill_logs>>
readVars == <<reply, reads>>

NoIntent == [medicine_name |-> None, quantity |-> 1, dosage_per_day |-> 1]
NoRet == [success |-> FALSE, initial_stock |-> 0, new_stock |-> 0,
          warehouse_triggered |-> FALSE, procurement_quantity |-> 0,
          priority |-> None]
NoOdf == [table |-> <<>>, purchase_date |-> 0]
NoReq == [medicine_name |-> None, quantity |-> 0, current_stock |-> 0,
          new_stock |-> 0, df |-> <<>>]
NoChecked == [dosage_safe |-> FALSE, dosage_warning |-> None,
              is_available |-> FALSE, shortage |-> 0, current_stock |-> 0,
              entry_stock |-> <<>>, model_result |-> None]
NoReply == [op |-> None, value |-> <<>>, data |-> <<>>]

Init ==
    /\ stock = [m \in Catalog |-> InitStock]
    /\ orders = <<>>
    /\ traces = <<>>
    /\ refill_logs = <<>>
    /\ current_trace_id = NoTraceId
    /\ now = 0
    /\ pc = [p \in Procs |-> "idle"]
    /\ user = [p \in Procs |-> None]
    /\ intent = [p \in Procs |-> NoIntent]
    /\ status = [p \in Procs |-> "none"]
    /\ order_id = [p \in Procs |-> NoOrderId]
    /\ df = [p \in Procs |-> <<>>]
    /\ odf = [p \in Procs |-> NoOdf]
    /\ ret = [p \in Procs |-> NoRet]
    /\ hist = [p \in Procs |-> <<>>]
    /\ changed = [p \in Procs |-> FALSE]
    /\ saved = [p \in Procs |-> 0]
    /\ rpc = "idle"
    /\ rreq = NoReq
    /\ refills = 0
    /\ checked = [p \in Procs |-> NoChecked]
    /\ reply = NoReply
    /\ reads = 0
    /\ logged = [p \in 0..NumProcs |-> <<>>]

----------------------------------------------------------------------------
(* Pure parts of the agents *)

Max(a, b) == IF a >= b THEN a ELSE b

validate_order_override(medicine_name) ==
    LET m == get_medicine(medicine_name) IN
    IF m = None THEN [is_valid |-> FALSE, error |-> "medicine_not_found"]
    ELSE [is_valid |-> TRUE, error |-> None]

(* SafetyAgent.validate_order, prescription_override = False *)
validate_order(medicine_name) ==
    LET m == get_medicine(medicine_name) IN
    IF m = None THEN [is_valid |-> FALSE, error |-> "medicine_not_found"]
    ELSE IF prescription_required[m]
         THEN [is_valid |-> FALSE, error |-> "prescription_required"]
         ELSE [is_valid |-> TRUE, error |-> None]

check_dosage_safety_nolimit(dosage_per_day) ==
    IF dosage_per_day <= 0 THEN [is_safe |-> FALSE, warning |-> "ERROR"]
    ELSE IF dosage_per_day > 6 THEN [is_safe |-> TRUE, warning |-> "NOTICE"]
    ELSE [is_safe |-> TRUE, warning |-> ""]

check_availability_noshortage(table, medicine_name, quantity) ==
    LET m == get_medicine(medicine_name) IN
    IF m = None THEN [is_available |-> FALSE, shortage |-> 0, current_stock |-> 0]
    ELSE [is_available |-> table[m] >= quantity, shortage |-> 0,
          current_stock |-> table[m]]

(* SafetyAgent.check_dosage_safety: (is_safe, warning) *)
check_dosage_safety(dosage_per_day) ==
    IF dosage_per_day <= 0 THEN [is_safe |-> FALSE, warning |-> "ERROR"]
    ELSE IF dosage_per_day > 10 THEN [is_safe |-> FALSE, warning |-> "WARNING"]
    ELSE IF dosage_per_day > 6 THEN [is_safe |-> TRUE, warning |-> "NOTICE"]
    ELSE [is_safe |-> TRUE, warning |-> ""]

(* InventoryAgent.check_availability on the table as read *)
check_availability(table, medicine_name, quantity) ==
    LET m == get_medicine(medicine_name) IN
    IF m = None THEN [is_available |-> FALSE, shortage |-> 0, current_stock |-> 0]
    ELSE IF table[m] < quantity
         THEN [is_available |-> FALSE, shortage |-> quantity - table[m],
               current_stock |-> table[m]]
         ELSE [is_available |-> TRUE, shortage |-> 0, current_stock |-> table[m]]

(* Database.update_stock on the table it has loaded: the table it writes    *)
(* back (written is FALSE when it returns before to_csv) and its result     *)
update_stock_noguard(table, medicine_name, quantity_change) ==
    LET m == get_medicine(medicine_name) IN
    IF m = None THEN [ok |-> FALSE, written |-> FALSE, table |-> table]
    ELSE [ok |-> TRUE, written |-> TRUE,
          table |-> [table EXCEPT ![m] = table[m] + quantity_change]]

update_stock_clamped(table, medicine_name, quantity_change) ==
    LET m == get_medicine(medicine_name) IN
    IF m = None THEN [ok |-> FALSE, written |-> FALSE, table |-> table]
    ELSE LET new_stock == table[m] + quantity_change IN
         IF new_stock < 0
         THEN [ok |-> FALSE, written |-> TRUE, table |-> [table EXCEPT ![m] = 0]]
         ELSE [ok |-> TRUE, written |-> TRUE,
               table |-> [table EXCEPT ![m] = new_stock]]

update_stock(table, medicine_name, quantity_change) ==
    LET m == get_medicine(medicine_name) IN
    IF m = None THEN [ok |-> FALSE, written |-> FALSE, table |-> table]
    ELSE LET new_stock == table[m] + quantity_change IN
         IF new_stock < 0
         THEN [ok |-> FALSE, written |-> FALSE, table |-> table]
         ELSE [ok |-> TRUE, written |-> TRUE,
               table |-> [table EXCEPT ![m] = new_stock]]

(* InventoryAgent._calculate_procurement_quantity *)
calculate_procurement_quantity(current_stock) == Max(100, 200 - current_stock)

procurement_priority_upto(current_stock) ==
    IF current_stock <= 20 THEN "high" ELSE "normal"

(* the priority of the webhook payload of _trigger_warehouse_procurement *)
procurement_priority(current_stock) ==
    IF current_stock < 20 THEN "high" ELSE "normal"

(* round(x, 1) of the float x = n / d (d > 0), in tenths: to the nearest     *)
(* tenth, a tie to the even one                                             *)
RoundTenths(n, d) ==
    LET fl == (10 * n) \div d
        rm == (10 * n) % d IN
    IF 2 * rm < d THEN fl
    ELSE IF 2 * rm > d THEN fl + 1
    ELSE IF fl % 2 = 0 THEN fl ELSE fl + 1

(* PredictiveAgent._calculate_days_remaining; days_remaining in tenths of a *)
(* day                                                                      *)
calculate_days_remaining(order, current_date) ==
    LET days_elapsed == (current_date - order.purchase_date) \div seconds_per_day IN
    [days_remaining |->
         RoundTenths(order.quantity - days_elapsed * order.dosage_per_day,
                     order.dosage_per_day),
     days_elapsed |-> days_elapsed]

get_alert_priority_below(days_remaining) ==
    IF days_remaining < 0 THEN "CRITICAL"
    ELSE IF days_remaining < 10 THEN "HIGH"
    ELSE IF days_remaining < 30 THEN "MEDIUM"
    ELSE "LOW"

(* PredictiveAgent._get_alert_priority, on tenths of a day *)
get_alert_priority(days_remaining) ==
    IF days_remaining <= 0 THEN "CRITICAL"
    ELSE IF days_remaining <= 10 THEN "HIGH"
    ELSE IF days_remaining <= 30 THEN "MEDIUM"
    ELSE "LOW"

(* The status _log_agent_action passes to log_trace: it passes none, so     *)
(* log_trace's default applies                                              *)
log_status == "success"

(* TraceLogger.log_trace: the line appended; by is the execution that       *)
(* appended it (not part of the file)                                       *)
TraceEntry(trace_id, agent_name, action, st, p) ==
    [trace_id |-> trace_id, timestamp |-> now, agent_name |-> agent_name,
     action |-> action, status |-> st, by |-> p]

(* TraceLogger.log_trace on the file: open(log_file, 'a') and write of the  *)
(* line                                                                     *)
log_trace_rewrite(log, entry) == <<entry>>

log_trace(log, entry) == Append(log, entry)

(* OrchestratorAgent._log_agent_action *)
log_agent_action(p, agent_name, action) ==
    LET entry == TraceEntry(current_trace_id, agent_name, action, log_status, p) IN
    /\ traces' = log_trace(traces, entry)
    /\ logged' = [logged EXCEPT ![p] = Append(@, entry)]

(* The steps of the pipeline, in the order of process_order *)
StepOrder == <<"extract", "validate", "dosage", "check", "deduct", "persist",
               "predict">>

Ran(p, step, ok) == hist' = [hist EXCEPT ![p] = Append(@, [step |-> step, ok |-> ok])]

(* where process_order goes after each step: on, or out by return *)
after_extract(medicine_name) == IF medicine_name = None THEN "done" ELSE "validate"
after_validate(is_valid) == IF is_valid THEN "dosage" ELSE "done"
after_dosage_nogate(is_safe) == "check"
after_dosage(is_safe) == IF is_safe THEN "check" ELSE "done"
after_check(is_available) == IF is_available THEN "deduct" ELSE "done"
after_deduct(deduct_success) == IF deduct_success THEN "save_load" ELSE "done"

----------------------------------------------------------------------------
(* OrchestratorAgent.process_order *)

(* trace_id = str(uuid.uuid4()): fresh for each execution, here the         *)
(* execution's own number (executions are numbered in the order they        *)
(* start); self.current_trace_id = trace_id                                 *)
Start(p) ==
    /\ pc[p] = "idle"
    /\ \A q \in Procs : q < p => pc[q] # "idle"
    /\ \E u \in Users : user' = [user EXCEPT ![p] = u]
    /\ current_trace_id' = TraceId(p)
    /\ status' = [status EXCEPT ![p] = "pending"]
    /\ checked' = [checked EXCEPT ![p] = [NoChecked EXCEPT !.entry_stock = stock]]
    /\ pc' = [pc EXCEPT ![p] = "extract"]
    /\ UNCHANGED <<stock, orders, traces, logged, now, intent, order_id, df, odf, ret,
                   hist, changed, saved, refillVars, readVars>>

(* Step 1: extract_intent and its trace; no medicine name ends the          *)
(* execution with status failed                                             *)
ExtractFrom(p, intents) ==
    /\ pc[p] = "extract"
    /\ \E i \in intents :
         /\ intent' = [intent EXCEPT ![p] = i]
         /\ log_agent_action(p, "ConversationalAgent", "extract_intent")
         /\ Ran(p, "extract", i.medicine_name # None)
         /\ pc' = [pc EXCEPT ![p] = after_extract(i.medicine_name)]
         /\ status' = [status EXCEPT ![p] =
                         IF i.medicine_name = None THEN "failed" ELSE @]
    /\ UNCHANGED <<stock, orders, current_trace_id, now, user, order_id, df, odf,
                   ret, changed, saved, refillVars, checked, readVars>>

Extract(p) == ExtractFrom(p, Intents)

(* Step 2: validate_order and its trace *)
Validate(p) ==
    /\ pc[p] = "validate"
    /\ LET r == validate_order(intent[p].medicine_name) IN
         /\ log_agent_action(p, "SafetyAgent", "validate_order")
         /\ Ran(p, "validate", r.is_valid)
         /\ pc' = [pc EXCEPT ![p] = after_validate(r.is_valid)]
         /\ status' = [status EXCEPT ![p] = IF r.is_valid THEN @ ELSE "rejected"]
    /\ UNCHANGED <<stock, orders, current_trace_id, now, user, intent, order_id,
                   df, odf, ret, changed, saved, refillVars, checked, readVars>>

(* check_dosage_safety: no trace is written for it *)
DosageCheck(p) ==
    /\ pc[p] = "dosage"
    /\ LET r == check_dosage_safety(intent[p].dosage_per_day) IN
         /\ checked' = [checked EXCEPT ![p] =
                          [@ EXCEPT !.dosage_safe = r.is_safe,
                                    !.dosage_warning = r.warning]]
         /\ Ran(p, "dosage", r.is_safe)
         /\ pc' = [pc EXCEPT ![p] = after_dosage(r.is_safe)]
         /\ status' = [status EXCEPT ![p] = IF r.is_safe THEN @ ELSE "rejected"]
    /\ UNCHANGED <<stock, orders, traces, logged, current_trace_id, now, user, intent,
                   order_id, df, odf, ret, changed, saved, refillVars, readVars>>

(* Step 3: check_availability and its trace *)
CheckAvailability(p) ==
    /\ pc[p] = "check"
    /\ LET r == check_availability(stock, intent[p].medicine_name,
                                   intent[p].quantity) IN
         /\ checked' = [checked EXCEPT ![p] =
                          [@ EXCEPT !.is_available = r.is_available,
                                    !.shortage = r.shortage,
                                    !.current_stock = r.current_stock]]
         /\ log_agent_action(p, "InventoryAgent", "check_availability")
         /\ Ran(p, "check", r.is_available)
         /\ pc' = [pc EXCEPT ![p] = after_check(r.is_available)]
         /\ status' = [status EXCEPT ![p] = IF r.is_available THEN @ ELSE "rejected"]
    /\ UNCHANGED <<stock, orders, current_trace_id, now, user, intent, order_id,
                   df, odf, ret, changed, saved, refillVars, readVars>>

(* Step 4, InventoryAgent.deduct_stock: get_medicine before the deduction *)
DeductGet(p) ==
    /\ pc[p] = "deduct"
    /\ LET m == get_medicine(intent[p].medicine_name) IN
         IF m = None
         THEN /\ ret' = [ret EXCEPT ![p] = NoRet]
              /\ pc' = [pc EXCEPT ![p] = "deduct_ret"]
         ELSE /\ ret' = [ret EXCEPT ![p] = [NoRet EXCEPT !.initial_stock = stock[m]]]
              /\ pc' = [pc EXCEPT ![p] = "upd_load"]
    /\ UNCHANGED <<stock, orders, traces, logged, current_trace_id, now, user, intent,
                   status, order_id, df, odf, hist, changed, saved, refillVars, checked, readVars>>

(* Database.update_stock: load_medicine_master *)
UpdLoad(p) ==
    /\ pc[p] = "upd_load"
    /\ df' = [df EXCEPT ![p] = stock]
    /\ pc' = [pc EXCEPT ![p] = "upd_write"]
    /\ UNCHANGED <<stock, orders, traces, logged, current_trace_id, now, user, intent,
                   status, order_id, odf, ret, hist, changed, saved, refillVars, checked, readVars>>

(* Database.update_stock: the new stock from the table as loaded, the guard *)
(* against a negative stock, and to_csv of the whole table                  *)
UpdWrite(p) ==
    /\ pc[p] = "upd_write"
    /\ LET r == update_stock(df[p], intent[p].medicine_name, -intent[p].quantity) IN
         /\ stock' = IF r.written THEN r.table ELSE stock
         /\ changed' = [changed EXCEPT ![p] = @ \/ (r.written /\ r.table # stock)]
         /\ pc' = [pc EXCEPT ![p] = IF r.ok THEN "deduct_new" ELSE "deduct_ret"]
         /\ ret' = [ret EXCEPT ![p] = [@ EXCEPT !.success = FALSE]]
    /\ UNCHANGED <<orders, traces, logged, current_trace_id, now, user, intent, status,
                   order_id, df, odf, hist, saved, refillVars, checked, readVars>>

(* InventoryAgent.deduct_stock after the update: get_medicine again, the    *)
(* procurement trigger, and the return of success                           *)
DeductNew(p) ==
    /\ pc[p] = "deduct_new"
    /\ LET new_stock == stock[get_medicine(intent[p].medicine_name)]
           low == new_stock < low_stock_threshold IN
         ret' = [ret EXCEPT ![p] =
                   [success |-> TRUE,
                    initial_stock |-> @.initial_stock,
                    new_stock |-> new_stock,
                    warehouse_triggered |-> low,
                    procurement_quantity |->
                        IF low THEN calculate_procurement_quantity(new_stock) ELSE 0,
                    priority |-> IF low THEN procurement_priority(new_stock) ELSE None]]
    /\ pc' = [pc EXCEPT ![p] = "deduct_ret"]
    /\ UNCHANGED <<stock, orders, traces, logged, current_trace_id, now, user, intent,
                   status, order_id, df, odf, hist, changed, saved, refillVars, checked, readVars>>

(* process_order once deduct_stock has returned: its trace, and status      *)
(* failed when the deduction failed                                         *)
DeductLog(p) ==
    /\ pc[p] = "deduct_ret"
    /\ log_agent_action(p, "InventoryAgent", "deduct_stock")
    /\ Ran(p, "deduct", ret[p].success)
    /\ pc' = [pc EXCEPT ![p] = after_deduct(ret[p].success)]
    /\ status' = [status EXCEPT ![p] = IF ret[p].success THEN @ ELSE "failed"]
    /\ UNCHANGED <<stock, orders, current_trace_id, now, user, intent, order_id,
                   df, odf, ret, changed, saved, refillVars, checked, readVars>>

(* Step 5, Database.save_order: purchase_date and load_order_history *)
SaveLoad(p) ==
    /\ pc[p] = "save_load"
    /\ odf' = [odf EXCEPT ![p] = [table |-> orders, purchase_date |-> now]]
    /\ pc' = [pc EXCEPT ![p] = "save_write"]
    /\ UNCHANGED <<stock, orders, traces, logged, current_trace_id, now, user, intent,
                   status, order_id, df, ret, hist, changed, saved, refillVars, checked, readVars>>

(* the row save_order appends to the table it has loaded *)
OrderRow(p) ==
    [user_id |-> user[p], medicine_name |-> intent[p].medicine_name,
     quantity |-> intent[p].quantity, dosage_per_day |-> intent[p].dosage_per_day,
     purchase_date |-> odf[p].purchase_date]

(* Database.save_order: to_csv of the table read plus the new row; the      *)
(* order id is the time in seconds; Step 6: status success                  *)
SaveWrite(p) ==
    /\ pc[p] = "save_write"
    /\ orders' = Append(odf[p].table, OrderRow(p))
    /\ order_id' = [order_id EXCEPT ![p] = OrderId(now)]
    /\ status' = [status EXCEPT ![p] = "success"]
    /\ saved' = [saved EXCEPT ![p] = @ + 1]
    /\ Ran(p, "persist", TRUE)
    /\ pc' = [pc EXCEPT ![p] = "predict"]
    /\ UNCHANGED <<stock, traces, logged, current_trace_id, now, user, intent, df, odf,
                   ret, changed, refillVars, checked, readVars>>

(* Database.get_user_medicine_history *)
get_user_medicine_history(user_id, medicine_name) ==
    SelectSeq(orders, LAMBDA o : /\ o.user_id = user_id
                                 /\ Lower(o.medicine_name) = Lower(medicine_name))

(* Step 7, _check_refill_prediction: a trace only when check_user_medicine  *)
(* returns a prediction, that is when the history is not empty              *)
Predict(p) ==
    /\ pc[p] = "predict"
    /\ IF get_user_medicine_history(user[p], intent[p].medicine_name) # <<>>
       THEN log_agent_action(p, "PredictiveAgent", "check_refill")
       ELSE UNCHANGED <<traces, logged>>
    /\ Ran(p, "predict", TRUE)
    /\ pc' = [pc EXCEPT ![p] = "done"]
    /\ UNCHANGED <<stock, orders, current_trace_id, now, user, intent, status,
                   order_id, df, odf, ret, changed, saved, refillVars, checked, readVars>>

(* the positions inside the try block, and the step each belongs to *)
TryPcs == {"extract", "validate", "dosage", "check", "deduct", "upd_load",
           "upd_write", "deduct_new", "deduct_ret", "save_load", "save_write",
           "predict"}

StepOf(at) ==
    CASE at \in {"deduct", "upd_load", "upd_write", "deduct_new", "deduct_ret"} -> "deduct"
      [] at \in {"save_load", "save_write"} -> "persist"
      [] OTHER -> at

(* An exception raised by the call at the current position (a file that     *)
(* cannot be read or written, a failing trace write), before the call has   *)
(* changed anything: control passes to the except clause                    *)
Raise(p) ==
    /\ pc[p] \in TryPcs
    /\ Ran(p, StepOf(pc[p]), FALSE)
    /\ pc' = [pc EXCEPT ![p] = "handler"]
    /\ UNCHANGED <<stock, orders, traces, logged, current_trace_id, now, user, intent,
                   status, order_id, df, odf, ret, changed, saved, refillVars, checked, readVars>>

(* except Exception: status error, the trace of the failure, return *)
Handler(p) ==
    /\ pc[p] = "handler"
    /\ status' = [status EXCEPT ![p] = "error"]
    /\ log_agent_action(p, "OrchestratorAgent", "process_order")
    /\ pc' = [pc EXCEPT ![p] = "done"]
    /\ UNCHANGED <<stock, orders, current_trace_id, now, user, intent, order_id,
                   df, odf, ret, hist, changed, saved, refillVars, checked, readVars>>

(* except Exception, with log_trace raising inside it: the exception        *)
(* leaves process_order                                                     *)
HandlerRaises(p) ==
    /\ pc[p] = "handler"
    /\ status' = [status EXCEPT ![p] = "error"]
    /\ pc' = [pc EXCEPT ![p] = "raised"]
    /\ UNCHANGED <<stock, orders, traces, logged, current_trace_id, now, user, intent,
                   order_id, df, odf, ret, hist, changed, saved, refillVars, checked, readVars>>

(* time passes *)
Tick ==
    /\ now < MaxNow
    /\ now' = now + 1
    /\ UNCHANGED <<stock, orders, traces, logged, current_trace_id, procVars, refillVars,
                   readVars>>

----------------------------------------------------------------------------
(* StockRefillAgent.execute_refill *)

RefillNames == {"Paracetamol", "Amoxicillin"}
RefillQuantities == {0, 2}

(* StockRefillAgent._refill_in_cooldown: the last row of refill_logs.csv    *)
(* with this very medicine_name is younger than the cooldown                *)
refill_in_cooldown(medicine_name) ==
    LET mine == SelectSeq(refill_logs, LAMBDA r : r.medicine_name = medicine_name) IN
    /\ mine # <<>>
    /\ now - mine[Len(mine)].timestamp < refill_cooldown_minutes * 60

(* StockRefillAgent._validate_refill *)
validate_refill(medicine_name, quantity) ==
    /\ get_medicine(medicine_name) # None
    /\ ~(quantity <= 0)
    /\ ~(quantity > stock_threshold[get_medicine(medicine_name)] * max_refill_multiplier)
    /\ ~refill_in_cooldown(medicine_name)

(* execute_refill up to new_stock = current_stock + quantity; a request     *)
(* that is not valid returns at once                                        *)
RefillRequestOf(names, quantities, calls) ==
    /\ rpc = "idle"
    /\ refills < calls
    /\ refills' = refills + 1
    /\ \E n \in names, q \in quantities :
         IF validate_refill(n, q)
         THEN /\ rreq' = [medicine_name |-> n, quantity |-> q,
                          current_stock |-> stock[get_medicine(n)],
                          new_stock |-> stock[get_medicine(n)] + q,
                          df |-> <<>>]
              /\ rpc' = "upd_load"
         ELSE UNCHANGED <<rreq, rpc>>
    /\ UNCHANGED <<stock, orders, traces, logged, refill_logs, current_trace_id, now,
                   procVars, readVars>>

RefillRequest == RefillRequestOf(RefillNames, RefillQuantities, MaxRefills)

(* Database.update_stock(medicine_name, new_stock): load_medicine_master *)
RefillUpdLoad ==
    /\ rpc = "upd_load"
    /\ rreq' = [rreq EXCEPT !.df = stock]
    /\ rpc' = "upd_write"
    /\ UNCHANGED <<stock, orders, traces, logged, refill_logs, current_trace_id, now,
                   procVars, readVars, refills>>

(* Database.update_stock(medicine_name, new_stock): new_stock is passed as  *)
(* the quantity_change                                                      *)
RefillUpdWrite ==
    /\ rpc = "upd_write"
    /\ LET r == update_stock(rreq.df, rreq.medicine_name, rreq.new_stock) IN
         /\ stock' = IF r.written THEN r.table ELSE stock
         /\ rpc' = IF r.ok THEN "log" ELSE "idle"
    /\ UNCHANGED <<orders, traces, logged, refill_logs, current_trace_id, now, procVars,
                   readVars, rreq, refills>>

(* StockRefillAgent._log_refill *)
RefillLog ==
    /\ rpc = "log"
    /\ refill_logs' = Append(refill_logs,
                             [timestamp |-> now,
                              medicine_name |-> rreq.medicine_name,
                              quantity_added |-> rreq.quantity,
                              new_stock_level |-> rreq.new_stock])
    /\ rpc' = "idle"
    /\ UNCHANGED <<stock, orders, traces, logged, current_trace_id, now, procVars, readVars,
                   rreq, refills>>

----------------------------------------------------------------------------

(* InventoryAgent.check_availability called on its own; the caller goes on  *)
(* to deduct_stock whatever the answer                                      *)
AvailabilityCall(p) ==
    /\ pc[p] = "avail"
    /\ ret' = [ret EXCEPT ![p] =
                 [NoRet EXCEPT !.success =
                    check_availability(stock, intent[p].medicine_name,
                                       intent[p].quantity).is_available]]
    /\ Ran(p, "check", check_availability(stock, intent[p].medicine_name,
                                          intent[p].quantity).is_available)
    /\ checked' = [checked EXCEPT ![p] =
                     LET r == check_availability(stock, intent[p].medicine_name,
                                                 intent[p].quantity) IN
                     [@ EXCEPT !.is_available = r.is_available,
                               !.shortage = r.shortage,
                               !.current_stock = r.current_stock]]
    /\ pc' = [pc EXCEPT ![p] = "deduct"]
    /\ UNCHANGED <<stock, orders, traces, logged, current_trace_id, now, user, intent,
                   status, order_id, df, odf, changed, saved, refillVars, readVars>>

----------------------------------------------------------------------------
(* Spec: process_order executions running concurrently on the one           *)
(* orchestrator, every call returning normally, within one second.          *)

Next ==
    \/ \E p \in Procs : Start(p)
    \/ \E p \in Procs : Extract(p)
    \/ \E p \in Procs : Validate(p)
    \/ \E p \in Procs : DosageCheck(p)
    \/ \E p \in Procs : CheckAvailability(p)
    \/ \E p \in Procs : DeductGet(p)
    \/ \E p \in Procs : UpdLoad(p)
    \/ \E p \in Procs : UpdWrite(p)
    \/ \E p \in Procs : DeductNew(p)
    \/ \E p \in Procs : DeductLog(p)
    \/ \E p \in Procs : SaveLoad(p)
    \/ \E p \in Procs : SaveWrite(p)
    \/ \E p \in Procs : Predict(p)

Spec == Init /\ [][Next]_vars

(* SpecFaults: process_order executions one after the other (the handlers   *)
(* of main.py call process_order synchronously on the event loop), any call *)
(* of an execution may raise, and time passes.                              *)

Ended(p) == pc[p] \in {"done", "raised"}

StartNext(p) ==
    /\ \A q \in Procs : pc[q] = "idle" \/ Ended(q)
    /\ Start(p)

NextFaults ==
    \/ \E p \in Procs : StartNext(p)
    \/ \E p \in Procs : Extract(p)
    \/ \E p \in Procs : Validate(p)
    \/ \E p \in Procs : DosageCheck(p)
    \/ \E p \in Procs : CheckAvailability(p)
    \/ \E p \in Procs : DeductGet(p)
    \/ \E p \in Procs : UpdLoad(p)
    \/ \E p \in Procs : UpdWrite(p)
    \/ \E p \in Procs : DeductNew(p)
    \/ \E p \in Procs : DeductLog(p)
    \/ \E p \in Procs : SaveLoad(p)
    \/ \E p \in Procs : SaveWrite(p)
    \/ \E p \in Procs : Predict(p)
    \/ \E p \in Procs : Raise(p)
    \/ \E p \in Procs : Handler(p)
    \/ \E p \in Procs : HandlerRaises(p)
    \/ Tick

SpecFaults == Init /\ [][NextFaults]_vars

(* SpecLedger: the operations of the ledger called directly and             *)
(* interleaved: each caller calls deduct_stock, with or without             *)
(* check_availability before it, for any medicine name and quantity, while  *)
(* execute_refill runs and time passes.                                     *)

LedgerNames == {"Paracetamol", "Aspirin"}
LedgerQuantities == Quantities \cup {-1}

InitLedger ==
    /\ stock = [m \in Catalog |-> InitStock]
    /\ orders = <<>>
    /\ traces = <<>>
    /\ refill_logs = <<>>
    /\ current_trace_id = NoTraceId
    /\ now = 0
    /\ pc \in [Procs -> {"avail", "deduct"}]
    /\ user = [p \in Procs |-> None]
    /\ intent \in [Procs -> {Intent(n, q, 1) : n \in LedgerNames, q \in LedgerQuantities}]
    /\ status = [p \in Procs |-> "none"]
    /\ order_id = [p \in Procs |-> NoOrderId]
    /\ df = [p \in Procs |-> <<>>]
    /\ odf = [p \in Procs |-> NoOdf]
    /\ ret = [p \in Procs |-> NoRet]
    /\ hist = [p \in Procs |-> <<>>]
    /\ changed = [p \in Procs |-> FALSE]
    /\ saved = [p \in Procs |-> 0]
    /\ rpc = "idle"
    /\ rreq = NoReq
    /\ refills = 0
    /\ checked = [p \in Procs |-> NoChecked]
    /\ reply = NoReply
    /\ reads = 0
    /\ logged = [p \in 0..NumProcs |-> <<>>]

NextLedger ==
    \/ \E p \in Procs : AvailabilityCall(p)
    \/ \E p \in Procs : DeductGet(p)
    \/ \E p \in Procs : UpdLoad(p)
    \/ \E p \in Procs : UpdWrite(p)
    \/ \E p \in Procs : DeductNew(p)
    \/ RefillRequest
    \/ RefillUpdLoad
    \/ RefillUpdWrite
    \/ RefillLog
    \/ Tick

SpecLedger == InitLedger /\ [][NextLedger]_vars

(* SpecRefill: execute_refill called again and again, one call at a time,   *)
(* for the catalog's medicine under two spellings and an unknown medicine,  *)
(* with quantities that pass and that fail the validation, while minutes    *)
(* pass.                                                                    *)

AnyRefillNames == {"Paracetamol", "PARACETAMOL", "Aspirin"}
AnyRefillQuantities ==
    {0, 2, stock_threshold["Paracetamol"] * max_refill_multiplier + 1}
RefillDelays == {60, 240}

RefillRequestAny == RefillRequestOf(AnyRefillNames, AnyRefillQuantities, MaxRefillCalls)

(* one minute or four minutes pass *)
RefillTick ==
    /\ \E d \in RefillDelays :
         /\ now + d <= MaxRefillNow
         /\ now' = now + d
    /\ UNCHANGED <<stock, orders, traces, logged, current_trace_id, procVars, refillVars,
                   readVars>>

NextRefill ==
    \/ RefillRequestAny
    \/ RefillUpdLoad
    \/ RefillUpdWrite
    \/ RefillLog
    \/ RefillTick

SpecRefill == Init /\ [][NextRefill]_vars

(* SpecProcurement: deduct_stock called directly, for either medicine, on   *)
(* stock levels around the procurement thresholds.                          *)

ProcurementLevels == {InitStock, 21, 22, 60}
ProcurementQuantities == {InitStock - 1, 20}

InitProcurement ==
    /\ stock \in [Catalog -> ProcurementLevels]
    /\ orders = <<>>
    /\ traces = <<>>
    /\ refill_logs = <<>>
    /\ current_trace_id = NoTraceId
    /\ now = 0
    /\ pc = [p \in Procs |-> "deduct"]
    /\ user = [p \in Procs |-> None]
    /\ intent \in [Procs -> {Intent(n, q, 1) : n \in Catalog, q \in ProcurementQuantities}]
    /\ status = [p \in Procs |-> "none"]
    /\ order_id = [p \in Procs |-> NoOrderId]
    /\ df = [p \in Procs |-> <<>>]
    /\ odf = [p \in Procs |-> NoOdf]
    /\ ret = [p \in Procs |-> NoRet]
    /\ hist = [p \in Procs |-> <<>>]
    /\ changed = [p \in Procs |-> FALSE]
    /\ saved = [p \in Procs |-> 0]
    /\ rpc = "idle"
    /\ rreq = NoReq
    /\ refills = 0
    /\ checked = [p \in Procs |-> NoChecked]
    /\ reply = NoReply
    /\ reads = 0
    /\ logged = [p \in 0..NumProcs |-> <<>>]

NextProcurement ==
    \/ \E p \in Procs : DeductGet(p)
    \/ \E p \in Procs : UpdLoad(p)
    \/ \E p \in Procs : UpdWrite(p)
    \/ \E p \in Procs : DeductNew(p)

SpecProcurement == InitProcurement /\ [][NextProcurement]_vars

(* SpecPredict: _calculate_days_remaining and _get_alert_priority applied   *)
(* to one fixed order again and again while the days pass.                  *)

PredictQuantities == {1, 3, 10}
PredictDosages == {1, 3, 4}
PurchaseDates == {0, seconds_per_day \div 2}

InitPredict ==
    /\ stock = [m \in Catalog |-> InitStock]
    /\ \E q \in PredictQuantities, d \in PredictDosages, t \in PurchaseDates :
          orders = <<[user_id |-> "u1", medicine_name |-> "Paracetamol",
                      quantity |-> q, dosage_per_day |-> d, purchase_date |-> t]>>
    /\ traces = <<>>
    /\ refill_logs = <<>>
    /\ current_trace_id = NoTraceId
    /\ now = 0
    /\ pc = [p \in Procs |-> "idle"]
    /\ user = [p \in Procs |-> None]
    /\ intent = [p \in Procs |-> NoIntent]
    /\ status = [p \in Procs |-> "none"]
    /\ order_id = [p \in Procs |-> NoOrderId]
    /\ df = [p \in Procs |-> <<>>]
    /\ odf = [p \in Procs |-> NoOdf]
    /\ ret = [p \in Procs |-> NoRet]
    /\ hist = [p \in Procs |-> <<>>]
    /\ changed = [p \in Procs |-> FALSE]
    /\ saved = [p \in Procs |-> 0]
    /\ rpc = "idle"
    /\ rreq = NoReq
    /\ refills = 0
    /\ checked = [p \in Procs |-> NoChecked]
    /\ reply = NoReply
    /\ reads = 0
    /\ logged = [p \in 0..NumProcs |-> <<>>]

(* half a day passes *)
TickHalfDay ==
    /\ now < MaxDays * seconds_per_day
    /\ now' = now + seconds_per_day \div 2
    /\ UNCHANGED <<stock, orders, traces, logged, current_trace_id, procVars, refillVars,
                   readVars>>

(* _calculate_days_remaining(order, datetime.now()) and _get_alert_priority *)
(* of its days_remaining; data keeps what the call before returned          *)
CalculateDaysRemaining ==
    /\ LET r == calculate_days_remaining(orders[1], now) IN
         reply' = [op |-> "days_remaining",
                   value |-> [days_remaining |-> r.days_remaining,
                              days_elapsed |-> r.days_elapsed,
                              priority |-> get_alert_priority(r.days_remaining),
                              current_date |-> now],
                   data |-> IF reply.op = "days_remaining" THEN reply.value ELSE <<>>]
    /\ UNCHANGED <<stock, orders, traces, logged, current_trace_id, now, procVars,
                   refillVars, reads>>

NextPredict ==
    \/ TickHalfDay
    \/ CalculateDaysRemaining

SpecPredict == InitPredict /\ [][NextPredict]_vars

----------------------------------------------------------------------------
(* The alert and trace endpoints *)

Reverse(seq) == [i \in 1..Len(seq) |-> seq[Len(seq) + 1 - i]]

(* seq[:n] *)
Take(seq, n) == SubSeq(seq, 1, IF n < Len(seq) THEN n ELSE Len(seq))

(* TraceLogger.get_traces without filters: the lines of the file, most      *)
(* recent first, cut at limit                                               *)
get_traces(log, limit) == Take(Reverse(log), limit)

(* the grouping loop of get_recent_traces_grouped from position i on: a     *)
(* trace_id seen for the first time opens a group whose start_time is the   *)
(* timestamp of that trace                                                  *)
RECURSIVE group_by_trace_id(_, _, _)
group_by_trace_id(all_traces, i, grouped) ==
    IF i > Len(all_traces) THEN grouped
    ELSE LET trace == all_traces[i]
             tid == trace.trace_id IN
         group_by_trace_id(all_traces, i + 1,
             IF \E k \in 1..Len(grouped) : grouped[k].trace_id = tid
             THEN [k \in 1..Len(grouped) |->
                      IF grouped[k].trace_id = tid
                      THEN [grouped[k] EXCEPT !.actions = Append(@, trace)]
                      ELSE grouped[k]]
             ELSE Append(grouped, [trace_id |-> tid, start_time |-> trace.timestamp,
                                   actions |-> <<trace>>]))

(* result.sort(key=start_time, reverse=True) from position i on: a stable   *)
(* sort, groups of equal start_time keep their order                        *)
RECURSIVE sort_by_start_time(_, _, _)
sort_by_start_time(result, i, sorted) ==
    IF i > Len(result) THEN sorted
    ELSE LET x == result[i]
             n == Cardinality({k \in 1..Len(sorted) :
                                  sorted[k].start_time >= x.start_time}) IN
         sort_by_start_time(result, i + 1,
             SubSeq(sorted, 1, n) \o <<x>> \o SubSeq(sorted, n + 1, Len(sorted)))

(* TraceLogger.get_recent_traces_grouped *)
get_recent_traces_grouped(log, limit) ==
    LET all_traces == get_traces(log, limit * 10)
        result == group_by_trace_id(all_traces, 1, <<>>) IN
    Take(sort_by_start_time(result, 1, <<>>), limit)

(* TraceLogger.get_agent_statistics *)
get_agent_statistics(log) ==
    LET all_traces == get_traces(log, statistics_limit) IN
    [total_traces |-> Len(all_traces),
     by_agent |-> [a \in {all_traces[i].agent_name : i \in 1..Len(all_traces)} |->
                      Len(SelectSeq(all_traces, LAMBDA t : t.agent_name = a))],
     by_status |-> [st \in {"success", "failed", "error"} |->
                       Len(SelectSeq(all_traces, LAMBDA t : t.status = st))],
     recent_activity |-> Take(all_traces, recent_activity_limit)]

(* group.sort_values('purchase_date').iloc[-1]: the row of the group with   *)
(* the latest purchase_date, the last of them in the file                   *)
most_recent(group) ==
    LET latest == CHOOSE i \in 1..Len(group) :
                      /\ \A j \in 1..Len(group) :
                            group[j].purchase_date <= group[i].purchase_date
                      /\ \A j \in (i + 1)..Len(group) :
                            group[j].purchase_date < group[i].purchase_date IN
    group[latest]

(* PredictiveAgent.predict_refill_needs: one alert for each (user,          *)
(* medicine_name) of the order history whose most recent order has at most  *)
(* alert_threshold_days left; user_id None is every user                    *)
predict_refill_needs(order_history, user_id, today) ==
    LET rows == IF user_id = None THEN order_history
                ELSE SelectSeq(order_history, LAMBDA o : o.user_id = user_id)
        keys == {<<rows[i].user_id, rows[i].medicine_name>> : i \in 1..Len(rows)}
        last(k) == most_recent(SelectSeq(rows, LAMBDA o : /\ o.user_id = k[1]
                                                          /\ o.medicine_name = k[2]))
        left(k) == calculate_days_remaining(last(k), today).days_remaining IN
    {[user_id |-> k[1], medicine_name |-> k[2], days_remaining |-> left(k),
      last_quantity |-> last(k).quantity, dosage_per_day |-> last(k).dosage_per_day,
      alert_priority |-> get_alert_priority(left(k))] :
        k \in {x \in keys : left(x) <= alert_threshold_days * 10}}

(* OrchestratorAgent.get_refill_alerts: the alerts, and a trace of the run  *)
(* under the trace id the orchestrator holds                                *)
GetRefillAlerts ==
    /\ reads < MaxReads
    /\ reads' = reads + 1
    /\ \E user_id \in Users \cup {None} :
         /\ log_agent_action(0, "PredictiveAgent", "generate_refill_alerts")
         /\ reply' = [op |-> "get_refill_alerts",
                      value |-> predict_refill_needs(orders, user_id, now),
                      data |-> <<stock, orders, traces'>>]
    /\ UNCHANGED <<stock, orders, current_trace_id, now, procVars, refillVars>>

(* a call of TraceLogger.get_agent_statistics *)
GetStatistics ==
    /\ reads < MaxReads
    /\ reads' = reads + 1
    /\ reply' = [op |-> "get_agent_statistics",
                 value |-> get_agent_statistics(traces),
                 data |-> <<stock, orders, traces>>]
    /\ UNCHANGED <<stock, orders, traces, logged, current_trace_id, now, procVars,
                   refillVars>>

(* a call of TraceLogger.get_recent_traces_grouped with its default limit *)
GetRecentTracesGrouped ==
    /\ reads < MaxReads
    /\ reads' = reads + 1
    /\ reply' = [op |-> "get_recent_traces_grouped",
                 value |-> get_recent_traces_grouped(traces, grouped_limit),
                 data |-> <<stock, orders, traces>>]
    /\ UNCHANGED <<stock, orders, traces, logged, current_trace_id, now, procVars,
                   refillVars>>

(* TraceLogger.clear_logs: unlink and touch *)
ClearLogs ==
    /\ reads < MaxReads
    /\ reads' = reads + 1
    /\ traces' = <<>>
    /\ logged' = [p \in 0..NumProcs |-> <<>>]
    /\ reply' = [op |-> "clear_logs", value |-> <<>>, data |-> <<stock, orders, <<>>>>]
    /\ UNCHANGED <<stock, orders, current_trace_id, now, procVars, refillVars>>

(* SpecReads: process_order executions one after the other, every call      *)
(* returning normally, with calls of the alert and trace endpoints between  *)
(* their steps and time passing.                                            *)

NextReads ==
    \/ \E p \in Procs : StartNext(p)
    \/ \E p \in Procs : Extract(p)
    \/ \E p \in Procs : Validate(p)
    \/ \E p \in Procs : DosageCheck(p)
    \/ \E p \in Procs : CheckAvailability(p)
    \/ \E p \in Procs : DeductGet(p)
    \/ \E p \in Procs : UpdLoad(p)
    \/ \E p \in Procs : UpdWrite(p)
    \/ \E p \in Procs : DeductNew(p)
    \/ \E p \in Procs : DeductLog(p)
    \/ \E p \in Procs : SaveLoad(p)
    \/ \E p \in Procs : SaveWrite(p)
    \/ \E p \in Procs : Predict(p)
    \/ GetRefillAlerts
    \/ GetStatistics
    \/ GetRecentTracesGrouped
    \/ ClearLogs
    \/ Tick

SpecReads == Init /\ [][NextReads]_vars

(* SpecOrders: process_order executions one after the other, every call     *)
(* returning normally, on any extracted medicine name, quantity and dosage  *)
(* and any stock levels.                                                    *)

StockLevels == {0, InitStock}
AllDosages == Dosages \cup {-1, 6, 10}
AllIntents == {Intent(n, q, d) : n \in MedicineNames, q \in Quantities, d \in AllDosages}

InitOrders ==
    /\ stock \in [Catalog -> StockLevels]
    /\ orders = <<>>
    /\ traces = <<>>
    /\ refill_logs = <<>>
    /\ current_trace_id = NoTraceId
    /\ now = 0
    /\ pc = [p \in Procs |-> "idle"]
    /\ user = [p \in Procs |-> None]
    /\ intent = [p \in Procs |-> NoIntent]
    /\ status = [p \in Procs |-> "none"]
    /\ order_id = [p \in Procs |-> NoOrderId]
    /\ df = [p \in Procs |-> <<>>]
    /\ odf = [p \in Procs |-> NoOdf]
    /\ ret = [p \in Procs |-> NoRet]
    /\ hist = [p \in Procs |-> <<>>]
    /\ changed = [p \in Procs |-> FALSE]
    /\ saved = [p \in Procs |-> 0]
    /\ rpc = "idle"
    /\ rreq = NoReq
    /\ refills = 0
    /\ checked = [p \in Procs |-> NoChecked]
    /\ reply = NoReply
    /\ reads = 0
    /\ logged = [p \in 0..NumProcs |-> <<>>]

ExtractAny(p) == ExtractFrom(p, AllIntents)

NextOrders ==
    \/ \E p \in Procs : StartNext(p)
    \/ \E p \in Procs : ExtractAny(p)
    \/ \E p \in Procs : Validate(p)
    \/ \E p \in Procs : DosageCheck(p)
    \/ \E p \in Procs : CheckAvailability(p)
    \/ \E p \in Procs : DeductGet(p)
    \/ \E p \in Procs : UpdLoad(p)
    \/ \E p \in Procs : UpdWrite(p)
    \/ \E p \in Procs : DeductNew(p)
    \/ \E p \in Procs : DeductLog(p)
    \/ \E p \in Procs : SaveLoad(p)
    \/ \E p \in Procs : SaveWrite(p)
    \/ \E p \in Procs : Predict(p)

SpecOrders == InitOrders /\ [][NextOrders]_vars

----------------------------------------------------------------------------
(* ConversationalAgent.extract_intent, step by step: the call of the model  *)
(* service, its answer, the rule-based extraction                           *)

(* What _extract_with_ollama can come to: a JSON object with a medicine     *)
(* name, a JSON object whose medicine_name is null or missing, the empty    *)
(* JSON object, a response with no JSON object in it or one json.loads      *)
(* rejects, an exception of the client                                      *)
ModelResults == {"medicine_name", "no_medicine_name", "empty", "unparsable",
                 "exception"}

(* the intents the model can answer with, by the kind of its result; the    *)
(* kinds that return None or the empty object carry no intent               *)
ModelIntents(model_result) ==
    CASE model_result = "medicine_name" ->
             {i \in Intents : i.medicine_name # None}
      [] model_result = "no_medicine_name" ->
             {i \in Intents : i.medicine_name = None}
      [] OTHER -> {NoIntent}

(* result["extraction_method"] = method *)
Marked(i, method) ==
    [medicine_name |-> i.medicine_name, quantity |-> i.quantity,
     dosage_per_day |-> i.dosage_per_day, extraction_method |-> method]

(* a reading of extract_intent that returns every JSON object the model     *)
(* answers with                                                             *)
after_ollama_unchecked(model_result) ==
    IF model_result \in {"medicine_name", "no_medicine_name"}
    THEN "extracted" ELSE "regex"

(* extract_intent: the model's result is returned when it is not empty and  *)
(* has a medicine name (`if result and result.get("medicine_name")`),       *)
(* otherwise, and after an exception, _extract_with_regex runs              *)
after_ollama(model_result) ==
    IF model_result = "medicine_name" THEN "extracted" ELSE "regex"

(* extract_intent with ollama_available: _extract_with_ollama sends the     *)
(* chat request and waits for the answer (the call has no timeout)          *)
ExtractWithOllama(p) ==
    /\ pc[p] = "extract"
    /\ pc' = [pc EXCEPT ![p] = "ollama"]
    /\ UNCHANGED <<stock, orders, traces, logged, current_trace_id, now, user, intent,
                   status, order_id, df, odf, ret, hist, changed, saved, refillVars,
                   checked, readVars>>

(* extract_intent without ollama_available (the import failed): straight to *)
(* _extract_with_regex                                                      *)
ExtractWithoutOllama(p) ==
    /\ pc[p] = "extract"
    /\ checked' = [checked EXCEPT ![p].model_result = "unavailable"]
    /\ pc' = [pc EXCEPT ![p] = "regex"]
    /\ UNCHANGED <<stock, orders, traces, logged, current_trace_id, now, user, intent,
                   status, order_id, df, odf, ret, hist, changed, saved, refillVars,
                   readVars>>

(* the model service answers, or the client raises: _extract_with_ollama    *)
(* returns, and extract_intent returns its result marked "ollama" or goes   *)
(* on to the rule-based extraction                                          *)
OllamaAnswer(p) ==
    /\ pc[p] = "ollama"
    /\ \E r \in ModelResults : \E i \in ModelIntents(r) :
         /\ checked' = [checked EXCEPT ![p].model_result = r]
         /\ pc' = [pc EXCEPT ![p] = after_ollama(r)]
         /\ intent' = [intent EXCEPT ![p] =
                         IF after_ollama(r) = "extracted"
                         THEN Marked(i, "ollama") ELSE @]
    /\ UNCHANGED <<stock, orders, traces, logged, current_trace_id, now, user, status,
                   order_id, df, odf, ret, hist, changed, saved, refillVars,
                   readVars>>

(* _extract_with_regex, and result["extraction_method"] = "regex" *)
ExtractWithRegex(p) ==
    /\ pc[p] = "regex"
    /\ \E i \in Intents : intent' = [intent EXCEPT ![p] = Marked(i, "regex")]
    /\ pc' = [pc EXCEPT ![p] = "extracted"]
    /\ UNCHANGED <<stock, orders, traces, logged, current_trace_id, now, user, status,
                   order_id, df, odf, ret, hist, changed, saved, refillVars,
                   checked, readVars>>

(* Step 1 after extract_intent has returned: its trace; no medicine name    *)
(* ends the execution with status failed                                    *)
LogExtract(p) ==
    /\ pc[p] = "extracted"
    /\ log_agent_action(p, "ConversationalAgent", "extract_intent")
    /\ Ran(p, "extract", intent[p].medicine_name # None)
    /\ pc' = [pc EXCEPT ![p] = after_extract(intent[p].medicine_name)]
    /\ status' = [status EXCEPT ![p] =
                    IF intent[p].medicine_name = None THEN "failed" ELSE @]
    /\ UNCHANGED <<stock, orders, current_trace_id, now, user, intent, order_id, df,
                   odf, ret, changed, saved, refillVars, checked, readVars>>

(* the steps of process_order that need nothing from outside the program;   *)
(* the answer of the model service is not among them                        *)
ProgramStep(p) ==
    \/ ExtractWithOllama(p)
    \/ ExtractWithoutOllama(p)
    \/ ExtractWithRegex(p)
    \/ LogExtract(p)
    \/ Validate(p)
    \/ DosageCheck(p)
    \/ CheckAvailability(p)
    \/ DeductGet(p)
    \/ UpdLoad(p)
    \/ UpdWrite(p)
    \/ DeductNew(p)
    \/ DeductLog(p)
    \/ SaveLoad(p)
    \/ SaveWrite(p)
    \/ Predict(p)

(* process_order calls one after the other, the model service answering     *)
(* when and if it does                                                      *)
NextExtract ==
    \/ \E p \in Procs : StartNext(p)
    \/ \E p \in Procs : OllamaAnswer(p)
    \/ \E p \in Procs : ProgramStep(p)

SpecExtract == Init /\ [][NextExtract]_vars

(* the program runs on whenever it can; nothing makes the model service     *)
(* answer                                                                   *)
LiveExtract == SpecExtract /\ \A p \in Procs : WF_vars(ProgramStep(p))

----------------------------------------------------------------------------
(* Properties *)

InitialStock == [m \in Catalog |-> InitStock]

(* the medicine row a caller's request is about, or None *)
Row(p) == get_medicine(intent[p].medicine_name)

(* no execute_refill has written the stock table *)
NoRefillWrite == refill_logs = <<>> /\ rpc \in {"idle", "upd_load", "upd_write"}

(* C1: in every reachable state, after any interleaving of                  *)
(* check_availability, deduct_stock, update_stock and refill operations,    *)
(* the stock_level of every medicine is >= 0.                               *)
C1_StockNeverNegative == \A m \in Catalog : stock[m] >= 0

(* a deduction has been written, another has been refused by update_stock   *)
(* and a refill has been written and logged                                 *)
C1_Witness ==
    /\ \E p \in Procs : changed[p] /\ pc[p] = "deduct_ret" /\ ret[p].success
    /\ \E p \in Procs : pc[p] = "deduct_ret" /\ df[p] # <<>> /\ ~ret[p].success
    /\ refill_logs # <<>>

(* deduct_stock has returned to p after update_stock read a stock smaller   *)
(* than the quantity asked for                                              *)
ExceedingDeductReturned(p) ==
    /\ pc[p] = "deduct_ret"
    /\ Row(p) # None
    /\ df[p] # <<>>
    /\ intent[p].quantity > df[p][Row(p)]

(* p is the only caller that has got beyond check_availability, and no      *)
(* refill has written                                                       *)
Alone(p) ==
    /\ \A q \in Procs \ {p} : pc[q] \in {"avail", "deduct"}
    /\ NoRefillWrite

(* C2: deduct_stock(medicine, qty) called with qty greater than the current *)
(* stock, also without check_availability before it, returns failure and    *)
(* writes no stock: the call has changed no stock_level, and when no other  *)
(* operation has written either, every stock_level is what it was.          *)
C2_ExceedingDeductFailsClosed ==
    \A p \in Procs :
        ExceedingDeductReturned(p) =>
            /\ ~ret[p].success
            /\ ~changed[p]
            /\ Alone(p) => stock = InitialStock

(* a deduct_stock called without check_availability for more than the       *)
(* stock has returned, with nothing else having run                         *)
C2_Witness ==
    \E p \in Procs :
        /\ ExceedingDeductReturned(p)
        /\ hist[p] = <<>>
        /\ Alone(p)
        /\ intent[p].quantity > InitStock

(* C3: two deduct_stock requests for the same medicine, each fitting the    *)
(* stock alone and exceeding it together, with nothing else writing: exactly *)
(* one succeeds and the final stock is the initial stock minus its quantity. *)
C3_ExactlyOneDeductSucceeds ==
    \A p, q \in Procs :
        ( /\ p # q
          /\ pc[p] = "deduct_ret" /\ pc[q] = "deduct_ret"
          /\ Row(p) # None /\ Row(q) = Row(p)
          /\ intent[p].quantity \in 1..InitStock
          /\ intent[q].quantity \in 1..InitStock
          /\ intent[p].quantity + intent[q].quantity > InitStock
          /\ NoRefillWrite
          /\ \A r \in Procs \ {p, q} : pc[r] \in {"avail", "deduct"} )
        => /\ ret[p].success # ret[q].success
           /\ stock[Row(p)] = InitStock - (IF ret[p].success THEN intent[p].quantity
                                                            ELSE intent[q].quantity)

(* the trace entries execution p has appended *)
EntriesBy(p) == SelectSeq(traces, LAMBDA e : e.by = p)

(* the first n steps p has run are the first n steps of the pipeline, and   *)
(* each has succeeded                                                       *)
PassedFirst(p, n) ==
    /\ Len(hist[p]) >= n
    /\ \A i \in 1..n : hist[p][i].step = StepOrder[i] /\ hist[p][i].ok

(* no other execution has started *)
OnlyExecution(p) == \A q \in Procs \ {p} : pc[q] = "idle"

(* C4: a process_order execution that has ended with status rejected or     *)
(* failed has persisted no Order and has written no stock_level; when it is *)
(* the only execution, ledger and order history are as they were.           *)
C4_RejectedOrFailedCommitsNothing ==
    \A p \in Procs :
        (pc[p] = "done" /\ status[p] \in {"rejected", "failed"}) =>
            /\ saved[p] = 0
            /\ ~changed[p]
            /\ order_id[p] = NoOrderId
            /\ OnlyExecution(p) => (stock = InitialStock /\ orders = <<>>)

(* an execution has ended failed because update_stock refused its           *)
(* deduction, after its availability check had passed                       *)
C4_Witness ==
    \E p \in Procs :
        /\ pc[p] = "done" /\ status[p] = "failed"
        /\ Len(hist[p]) = 5 /\ hist[p][4].ok /\ ~hist[p][5].ok
        /\ stock # InitialStock

(* C5: within one execution the steps run only in the order extract,        *)
(* validate, dosage, check, deduct, persist, and each is run only when the  *)
(* one before succeeded: deduct_stock is entered only after the             *)
(* prescription, dosage and availability checks of the same execution       *)
(* succeeded, and save_order only after its deduction succeeded.            *)
C5_StepsInOrderAndGated ==
    \A p \in Procs :
        /\ Len(hist[p]) <= Len(StepOrder)
        /\ \A i \in 1..Len(hist[p]) : hist[p][i].step = StepOrder[i]
        /\ \A i \in 1..(Len(hist[p]) - 1) : hist[p][i].ok
        /\ (pc[p] \in {"deduct", "upd_load", "upd_write", "deduct_new", "deduct_ret"}
              \/ changed[p]) => PassedFirst(p, 4)
        /\ (pc[p] \in {"save_load", "save_write"} \/ saved[p] > 0)
              => (PassedFirst(p, 5) /\ ret[p].success)
        /\ Len(orders) > 0 => \E q \in Procs : saved[q] > 0

(* an execution has gone through all steps: stock written, Order saved *)
C5_Witness ==
    \E p \in Procs :
        /\ pc[p] = "done" /\ status[p] = "success"
        /\ changed[p] /\ saved[p] = 1
        /\ Len(hist[p]) = Len(StepOrder)

(* C6: every process_order call appends at least one TraceEntry, and every  *)
(* TraceEntry appended during an execution carries the trace_id that        *)
(* execution returns, also with executions running concurrently.           *)
C6_EntriesCarryOwnTraceId ==
    /\ \A p \in Procs : pc[p] = "done" => Len(EntriesBy(p)) >= 1
    /\ \A i \in 1..Len(traces) : traces[i].trace_id = TraceId(traces[i].by)

(* C7: every transition of an execution emits exactly one TraceEntry: an    *)
(* ended execution has appended as many entries as it has run steps (the    *)
(* step that ends it is its move to the terminal state).                    *)
C7_OneEntryPerStep ==
    \A p \in Procs : pc[p] = "done" => Len(EntriesBy(p)) = Len(hist[p])

(* C8: an execution that has ended rejected, failed or error has logged     *)
(* that outcome: its last TraceEntry has status failed or error (error      *)
(* exactly for an exception), never success.                                *)
C8_FailureEntriesHaveFailureStatus ==
    \A p \in Procs :
        (pc[p] = "done" /\ status[p] \in {"rejected", "failed", "error"}) =>
            LET es == EntriesBy(p) IN
            /\ es # <<>>
            /\ es[Len(es)].status \in {"failed", "error"}
            /\ es[Len(es)].status = "error" <=> status[p] = "error"

(* C9: process_order never lets an exception out: a failure raised at any   *)
(* step, trace logging included, ends the execution with a returned result  *)
(* of status error and a TraceEntry recording it.                           *)
C9_NoExceptionLeavesProcessOrder ==
    \A p \in Procs :
        /\ pc[p] # "raised"
        /\ (pc[p] = "done" /\ status[p] = "error") =>
              LET es == EntriesBy(p) IN
              /\ es # <<>>
              /\ es[Len(es)].agent_name = "OrchestratorAgent"

(* C10: once an execution has persisted its Order, what process_order       *)
(* returns is status success with the order id, whatever the predictive     *)
(* check does afterwards.                                                   *)
C10_PersistedOrderReturnsSuccess ==
    \A p \in Procs :
        (saved[p] > 0 /\ Ended(p)) =>
            /\ pc[p] = "done"
            /\ status[p] = "success"
            /\ order_id[p] # NoOrderId

(* the execution started last *)
Latest(p) == \A q \in Procs : q > p => pc[q] = "idle"

(* the request of p is for a medicine that requires a prescription *)
ForPrescriptionMedicine(p) == Row(p) # None /\ prescription_required[Row(p)]

(* C11: an execution whose medicine requires a prescription ends at the     *)
(* validation with status rejected, whatever the quantity, the dosage and   *)
(* the stock: it runs no later step, writes no stock and saves no Order,    *)
(* and no Order for such a medicine is in the order history.                *)
C11_PrescriptionMedicineRejected ==
    /\ \A p \in Procs :
          (ForPrescriptionMedicine(p) /\ Len(hist[p]) >= 2) =>
              /\ pc[p] = "done" /\ status[p] = "rejected"
              /\ Len(hist[p]) = 2 /\ ~hist[p][2].ok
              /\ ~changed[p] /\ saved[p] = 0 /\ order_id[p] = NoOrderId
              /\ Latest(p) => stock = checked[p].entry_stock
    /\ \A i \in 1..Len(orders) :
          ~prescription_required[get_medicine(orders[i].medicine_name)]

(* a prescription medicine was asked for in a quantity the stock covers and *)
(* with a dosage in range, and the execution has ended                      *)
C11_Witness ==
    \E p \in Procs :
        /\ pc[p] = "done" /\ ForPrescriptionMedicine(p)
        /\ intent[p].quantity \in 1..stock[Row(p)]
        /\ intent[p].dosage_per_day = 1
        /\ status[p] = "rejected"

(* C12: the dosage check rejects every dosage <= 0 and every dosage > 10,   *)
(* accepts with a non-empty warning every dosage in 7..10 and accepts       *)
(* without warning every dosage in 1..6; no Order in the order history has  *)
(* a dosage_per_day outside 1..10.                                          *)
C12_DosageBounds ==
    /\ \A p \in Procs :
          (Len(hist[p]) >= 3 /\ hist[p][3].step = "dosage") =>
              LET d == intent[p].dosage_per_day
                  c == checked[p] IN
              /\ (d <= 0 \/ d > 10) =>
                    (~c.dosage_safe /\ pc[p] = "done" /\ status[p] = "rejected")
              /\ d \in 7..10 => (c.dosage_safe /\ c.dosage_warning # "")
              /\ d \in 1..6 => (c.dosage_safe /\ c.dosage_warning = "")
    /\ \A i \in 1..Len(orders) : orders[i].dosage_per_day \in 1..10

(* an Order with dosage 10 has been saved and an execution asking for       *)
(* dosage 11 of a medicine in stock has ended                               *)
C12_Witness ==
    /\ \E i \in 1..Len(orders) : orders[i].dosage_per_day = 10
    /\ \E p \in Procs :
          /\ pc[p] = "done" /\ intent[p].dosage_per_day = 11
          /\ Len(hist[p]) = 3
          /\ intent[p].quantity \in 1..stock[Row(p)]

(* C13: a deduct_stock that has returned success has triggered the          *)
(* procurement signal exactly when the resulting stock is below the         *)
(* stock_threshold of the medicine deducted.                                *)
C13_ProcurementIffBelowMedicineThreshold ==
    \A p \in Procs :
        (pc[p] = "deduct_ret" /\ ret[p].success) =>
            (ret[p].warehouse_triggered <=> ret[p].new_stock < stock_threshold[Row(p)])

(* C14: a procurement signal triggered for a resulting stock new_stock asks *)
(* for max(100, 200 - new_stock) with priority high when new_stock < 20 and *)
(* normal otherwise; a deduction from 60 to 40 of a medicine with threshold *)
(* 50 triggers one for 160 with priority normal.                            *)
C14_ProcurementQuantityAndPriority ==
    \A p \in Procs :
        LET r == ret[p] IN
        /\ r.warehouse_triggered =>
              /\ r.success
              /\ r.procurement_quantity =
                    (IF 200 - r.new_stock > 100 THEN 200 - r.new_stock ELSE 100)
              /\ r.priority = (IF r.new_stock < 20 THEN "high" ELSE "normal")
        /\ ( /\ r.success /\ r.initial_stock = 60 /\ r.new_stock = 40
             /\ stock_threshold[Row(p)] = 50 )
              => ( /\ r.warehouse_triggered
                   /\ r.procurement_quantity = 160
                   /\ r.priority = "normal" )

(* one deduction from 60 to 40 and one to exactly 20 have triggered a       *)
(* signal                                                                   *)
C14_Witness ==
    /\ \E p \in Procs :
          /\ pc[p] = "deduct_ret" /\ ret[p].warehouse_triggered
          /\ ret[p].initial_stock = 60 /\ ret[p].new_stock = 40
          /\ stock_threshold[Row(p)] = 50
    /\ \E p \in Procs :
          /\ pc[p] = "deduct_ret" /\ ret[p].warehouse_triggered
          /\ ret[p].new_stock = 20

(* p has asked for more of an existing non-prescription medicine than was   *)
(* in stock when it started                                                 *)
ExceedsStock(p) ==
    /\ Len(hist[p]) >= 1
    /\ Row(p) # None /\ ~prescription_required[Row(p)]
    /\ intent[p].quantity > checked[p].entry_stock[Row(p)]

(* what the claim says of such an execution once it has ended *)
RejectedForShortage(p) ==
    /\ status[p] = "rejected"
    /\ ~checked[p].is_available
    /\ checked[p].shortage = intent[p].quantity - checked[p].entry_stock[Row(p)]
    /\ ~changed[p] /\ saved[p] = 0
    /\ Latest(p) => stock = checked[p].entry_stock

(* C15, as stated: an execution asking for more than the current stock of   *)
(* an existing non-prescription medicine ends with status rejected, its     *)
(* availability result reports shortage = quantity - current stock, and no  *)
(* stock_level has changed.                                                 *)
C15_ShortageRejected ==
    \A p \in Procs : (pc[p] = "done" /\ ExceedsStock(p)) => RejectedForShortage(p)

(* C15, amended: the same for the executions whose dosage_per_day is in     *)
(* 1..10; with any other dosage the execution is rejected by the dosage     *)
(* check and makes no availability check.                                   *)
C15_ShortageRejectedInDosageRange ==
    \A p \in Procs :
        (pc[p] = "done" /\ ExceedsStock(p) /\ intent[p].dosage_per_day \in 1..10)
            => RejectedForShortage(p)

(* an execution asking for InitStock + 2 units of a medicine with InitStock *)
(* in stock, at a dosage with a warning, has ended                          *)
C15_Witness ==
    \E p \in Procs :
        /\ pc[p] = "done" /\ ExceedsStock(p)
        /\ intent[p].dosage_per_day = 7
        /\ checked[p].entry_stock[Row(p)] = InitStock
        /\ checked[p].shortage = 2

(* p has returned status success *)
ReturnedSuccess(p) == pc[p] = "done" /\ status[p] = "success"

(* the sum of the quantities of the executions in S *)
RECURSIVE SumQuantity(_)
SumQuantity(S) ==
    IF S = {} THEN 0
    ELSE LET p == CHOOSE x \in S : TRUE IN
         intent[p].quantity + SumQuantity(S \ {p})

(* the Orders in the order history for the user, medicine and quantity of p *)
OrdersLike(p) ==
    SelectSeq(orders, LAMBDA o : /\ o.user_id = user[p]
                                 /\ o.medicine_name = intent[p].medicine_name
                                 /\ o.quantity = intent[p].quantity)

(* C16: once every execution started has returned, each execution that      *)
(* returned success for medicine m and quantity q has taken exactly q from  *)
(* the stock of m and from no other stock, and has appended exactly one     *)
(* Order for (user, m, q): every stock_level is the initial one minus the   *)
(* quantities of the successful executions for that medicine, and the order *)
(* history holds one Order per successful execution.                        *)
C16_SuccessDeductsAndPersistsOnce ==
    (\A p \in Procs : pc[p] \in {"idle", "done"}) =>
        /\ \A m \in Catalog :
              stock[m] = InitStock
                           - SumQuantity({p \in Procs : ReturnedSuccess(p) /\ Row(p) = m})
        /\ \A p \in Procs :
              ReturnedSuccess(p) =>
                  Len(OrdersLike(p)) =
                      Cardinality({q \in Procs : /\ ReturnedSuccess(q)
                                                  /\ user[q] = user[p]
                                                  /\ intent[q].medicine_name = intent[p].medicine_name
                                                  /\ intent[q].quantity = intent[p].quantity})
        /\ Len(orders) = Cardinality({p \in Procs : ReturnedSuccess(p)})

(* C17: for a fixed order, the days_remaining computed at a later current   *)
(* date is never greater than the one computed before, and the priority     *)
(* computed with it is CRITICAL when days_remaining <= 0, HIGH when it is   *)
(* in (0, 1], MEDIUM when in (1, 3] and LOW otherwise (days_remaining is    *)
(* kept in tenths of a day).                                                *)
C17_DaysRemainingMonotoneAndPriority ==
    reply.op = "days_remaining" =>
        LET v == reply.value IN
        /\ reply.data # <<>> =>
              /\ reply.data.current_date <= v.current_date
              /\ v.days_remaining <= reply.data.days_remaining
        /\ v.priority = "CRITICAL" <=> v.days_remaining <= 0
        /\ v.priority = "HIGH" <=> (0 < v.days_remaining /\ v.days_remaining <= 10)
        /\ v.priority = "MEDIUM" <=> (10 < v.days_remaining /\ v.days_remaining <= 30)
        /\ v.priority = "LOW" <=> 30 < v.days_remaining

(* the order was LOW at one computation and is exactly at 0 days, CRITICAL, *)
(* at the next                                                              *)
C17_Witness ==
    /\ reply.op = "days_remaining"
    /\ reply.data # <<>>
    /\ reply.data.priority = "LOW"
    /\ reply.value.days_remaining = 0
    /\ reply.value.priority = "CRITICAL"

(* the files of the system *)
Persisted == <<stock, orders, traces, refill_logs>>

(* C18: a call of get_refill_alerts or get_agent_statistics changes no      *)
(* persisted state (stock levels, order history, trace log), and when       *)
(* nothing has changed since the call before, which was of the same         *)
(* operation, it returns what that call returned.                           *)
C18_AlertsAndStatisticsReadOnly ==
    [][ (reads' = reads + 1
           /\ reply'.op \in {"get_refill_alerts", "get_agent_statistics"}) =>
            /\ Persisted' = Persisted
            /\ (reply.op = reply'.op /\ reply.data = <<stock, orders, traces>>)
                  => reply'.value = reply.value ]_vars

(* the position in the log of the first entry appended for a trace id *)
FirstEntryOf(log, tid) ==
    CHOOSE i \in 1..Len(log) :
        /\ log[i].trace_id = tid
        /\ \A j \in 1..(i - 1) : log[j].trace_id # tid

(* C19: what get_recent_traces_grouped returns on a log has exactly one     *)
(* group for each trace_id of the log, the start_time of a group is the     *)
(* timestamp of the first entry appended for its trace_id, and the groups   *)
(* are in descending order of start_time.                                   *)
C19_GroupsByEarliestTimestamp ==
    reply.op = "get_recent_traces_grouped" =>
        LET log == reply.data[3]
            groups == reply.value IN
        /\ {groups[i].trace_id : i \in 1..Len(groups)}
              = {log[j].trace_id : j \in 1..Len(log)}
        /\ \A i, j \in 1..Len(groups) :
              i # j => groups[i].trace_id # groups[j].trace_id
        /\ \A i \in 1..Len(groups) :
              groups[i].start_time = log[FirstEntryOf(log, groups[i].trace_id)].timestamp
        /\ \A i, j \in 1..Len(groups) :
              i < j => groups[i].start_time >= groups[j].start_time

(* log is the beginning of longer *)
IsPrefix(log, longer) ==
    /\ Len(log) <= Len(longer)
    /\ SubSeq(longer, 1, Len(log)) = log

(* C20: every step other than clear_logs leaves the trace log as it was or  *)
(* longer by entries at its end: the entries written before are still       *)
(* there, unchanged and in the same order.                                  *)
C20_TraceLogAppendOnly ==
    [][ClearLogs \/ IsPrefix(traces, traces')]_vars

(* the log holds entries of an execution, after them the entry of a         *)
(* get_refill_alerts call, and after it entries of the next execution       *)
C20_Witness ==
    \E i, j, k \in 1..Len(traces) :
        /\ i < j /\ j < k
        /\ traces[i].by = 1
        /\ traces[j].action = "generate_refill_alerts"
        /\ traces[k].by = 2

C22_OrderIdsUnique ==
    \A p, q \in Procs :
        (p # q /\ order_id[p] # NoOrderId /\ order_id[q] # NoOrderId)
            => order_id[p] # order_id[q]

(* the number of save_order calls of the executions in S that have returned *)
RECURSIVE SavedBy(_)
SavedBy(S) ==
    IF S = {} THEN 0
    ELSE LET p == CHOOSE x \in S : TRUE IN
         saved[p] + SavedBy(S \ {p})

(* C23: the order history holds the row of every save_order call that has   *)
(* returned, and as many rows as save_order calls have returned.            *)
C23_OrderLedgerAppendOnly ==
    /\ \A p \in Procs :
          saved[p] > 0 => \E i \in 1..Len(orders) : orders[i] = OrderRow(p)
    /\ Len(orders) = SavedBy(Procs)

(* process_order has returned with one of the four final statuses *)
Terminal(p) ==
    pc[p] = "done" /\ status[p] \in {"success", "rejected", "failed", "error"}

(* C24: every process_order execution that has been started eventually      *)
(* returns with status success, rejected, failed or error, whether the      *)
(* model service answers or not.                                            *)
C24_EveryExecutionTerminates ==
    \A p \in Procs : (pc[p] = "extract") ~> Terminal(p)

(* extract_intent has returned to process_order *)
Extracted(p) == pc[p] \notin {"idle", "extract", "ollama", "regex"}

(* C25: extract_intent tries the model first when it has one; after every   *)
(* result of the model but a JSON object with a medicine name (exception,   *)
(* unparsable response, empty result, no medicine name) the rule-based      *)
(* extraction runs and no exception leaves extract_intent; the intent       *)
(* returned is marked "ollama" exactly when the model's result has a        *)
(* medicine name, and "regex" otherwise.                                    *)
C25_FallbackOnEveryModelFailure ==
    \A p \in Procs :
        /\ pc[p] = "regex" => checked[p].model_result \in
               (ModelResults \ {"medicine_name"}) \cup {"unavailable"}
        /\ (checked[p].model_result \in ModelResults \ {"medicine_name"}) =>
               pc[p] # "raised" /\ (Extracted(p) => intent[p].extraction_method = "regex")
        /\ Extracted(p) =>
              /\ checked[p].model_result # None
              /\ intent[p].extraction_method \in {"ollama", "regex"}
              /\ intent[p].extraction_method = "ollama"
                    <=> checked[p].model_result = "medicine_name"
              /\ intent[p].extraction_method = "ollama"
                    => intent[p].medicine_name # None

(* the model has raised and the execution has gone on, on the intent the    *)
(* rule-based extraction found, to a persisted order                        *)
C25_Witness ==
    \E p \in Procs :
        /\ pc[p] = "done"
        /\ status[p] = "success"
        /\ checked[p].model_result = "exception"
        /\ intent[p].extraction_method = "regex"

(* C26: in every process_order execution that has returned, the stock has   *)
(* been written if and only if exactly one Order has been persisted, and an *)
(* execution that has returned failed or error has written no stock and     *)
(* persisted no Order.                                                      *)
C26_NoPartialCommit ==
    \A p \in Procs :
        pc[p] = "done" =>
            /\ changed[p] <=> saved[p] = 1
            /\ status[p] \in {"failed", "error"} =>
                  ~changed[p] /\ saved[p] = 0 /\ OrdersLike(p) = <<>>

(* the trace ids given to process_order executions *)
ExecutionTraceIds == {TraceId(p) : p \in Procs}

(* C27: the entry a get_refill_alerts call appends while no process_order   *)
(* execution is running does not carry the trace id of a process_order      *)
(* execution.                                                               *)
C27_TraceIdIsOneExecution ==
    [][(GetRefillAlerts /\ \A p \in Procs : pc[p] = "idle" \/ Ended(p))
         => traces'[Len(traces')].trace_id \notin ExecutionTraceIds]_vars

(* C28: every Order in the order history has quantity at least 1, and an    *)
(* execution whose intent has a quantity of 0 or less writes no stock and   *)
(* persists no Order.                                                       *)
C28_PersistedQuantityPositive ==
    /\ \A i \in 1..Len(orders) : orders[i].quantity >= 1
    /\ \A p \in Procs :
          (Len(hist[p]) > 0 /\ intent[p].quantity <= 0) =>
              ~changed[p] /\ saved[p] = 0

(* the stock level of the medicine the refill in progress is for *)
RefillStock(table) == table[get_medicine(rreq.medicine_name)]

(* C29: the stock write of a successful execute_refill(medicine, quantity)  *)
(* leaves the stock_level at previous stock + quantity, the new_stock_level *)
(* it reports and logs, and an execute_refill call that returns without     *)
(* that write (rejected by the validation) leaves every stock_level as it   *)
(* was.                                                                     *)
C29_RefillAddsExactlyQuantity ==
    [][/\ RefillUpdWrite =>
            /\ RefillStock(stock') = RefillStock(stock) + rreq.quantity
            /\ RefillStock(stock') = rreq.new_stock
       /\ (RefillRequestAny /\ rpc' = "idle") => stock' = stock]_vars

(* C30: any two rows of the refill log for one medicine of the catalog,     *)
(* whatever the spelling of its name, are at least refill_cooldown_minutes  *)
(* apart: a successful refill is followed by no successful refill of the    *)
(* same medicine within the cooldown.                                       *)
C30_RefillsFiveMinutesApart ==
    \A i, j \in 1..Len(refill_logs) :
        (i < j /\ get_medicine(refill_logs[i].medicine_name)
                    = get_medicine(refill_logs[j].medicine_name))
            => refill_logs[j].timestamp - refill_logs[i].timestamp
                   >= refill_cooldown_minutes * 60

====
